---- MODULE Spec2Model ----
(***************************************************************************)
(* Model of the "music" block (src/blocks/music.rs): construction, the     *)
(* update cycle (on_wake), click handling (on_click), the element list of  *)
(* view() and the metadata decoder extract_from_metadata.  The rotating    *)
(* text widget the block owns (widgets/rotatingtext.rs) is modelled from   *)
(* section 4.2 of the specification.                                       *)
(***************************************************************************)
EXTENDS Integers, Sequences, FiniteSets, TLC

VARIABLES
    pc,             \* "start" before Music::new, then "ready" or "failed"
    buttons,        \* MusicConfig.buttons as handed to Music::new
    marquee,        \* Music.marquee
    player,         \* Music.player
    current_song,   \* Music.current_song (the rotating text widget)
    prev,           \* Music.prev: "None" or the button's icon
    play,           \* Music.play: "None" or the button's icon
    next,           \* Music.next: "None" or the button's icon
    player_avail,   \* Music.player_avail
    player_meta,    \* what the bus answers to a read of "Metadata"
    player_status,  \* what the bus answers to a read of "PlaybackStatus"
    op,             \* the operation that produced this state
    ret,            \* the Result that operation returned
    queries,        \* the property reads that operation issued, in order
    calls,          \* the method calls that operation handed to send()
    arg,            \* the argument of that operation (click name, send outcome)
    id,             \* Music.id
    listener,       \* the listener thread: "none", "spawned", "listening", "dead"
    lid,            \* the id the listener thread captured
    chan,           \* the host's task channel: the ids of the wakes posted
    timer           \* ticks until the host's next timed wake, -1 if none

cfgvars == <<buttons, marquee, player>>
widget  == <<current_song, prev, play, next, player_avail>>
bus     == <<player_meta, player_status>>
hist    == <<op, ret, queries, calls, arg>>
host    == <<id, listener, lid, chan, timer>>
vars    == <<pc, buttons, marquee, player, current_song, prev, play, next,
             player_avail, player_meta, player_status, op, ret, queries,
             calls, arg, id, listener, lid, chan, timer>>

-----------------------------------------------------------------------------
(* Bounds *)

MaxButtons == 2     \* longest configured button list
HoldTicks  == 2     \* length of the hold phase, in clock ticks
MaxPairs   == 3     \* most key/value pairs in a decoder input bag
MaxChan    == 2     \* most wakes waiting in the host's channel

-----------------------------------------------------------------------------
(* Results and dynamically typed bus values *)

Ok(v)  == [ok |-> TRUE, v |-> v]
Err(m) == [ok |-> FALSE, v |-> m]

\* arg::RefArg: a string, an iterable (variant, array, dictionary) or
\* anything else (an integer, say); s is the string, q the elements
Str(s)   == [k |-> "str", s |-> s, q |-> <<>>]
Seq1(q)  == [k |-> "seq", s |-> "", q |-> q]
Int0     == [k |-> "int", s |-> "", q |-> <<>>]

\* RefArg::as_str: Some only for a string
as_str(x)  == IF x.k = "str" THEN Ok(x.s) ELSE Err("None")
\* RefArg::as_iter: Some only for an iterable
as_iter(x) == IF x.k = "seq" THEN Ok(x.q) ELSE Err("None")
\* Iterator::nth(0)
nth0(q)    == IF Len(q) > 0 THEN Ok(q[1]) ELSE Err("None")

DecodeError == "failed to extract metadata"

\* one "as_iter()?.nth(0)?" step of the artist chain
IterFirst(x) ==
    IF ~as_iter(x).ok THEN Err(DecodeError)
    ELSE IF ~nth0(as_iter(x).v).ok THEN Err(DecodeError)
    ELSE nth0(as_iter(x).v)

\* ArtistOf that descends two levels only
ArtistOf_shallow(value) ==
    LET l1 == IterFirst(value) IN
    IF ~l1.ok THEN l1 ELSE
    LET l2 == IterFirst(l1.v) IN
    IF ~l2.ok THEN l2 ELSE
    IF as_str(l2.v).ok THEN as_str(l2.v) ELSE Err(DecodeError)

\* the "xesam:artist" arm: three descents, then as_str
ArtistOf(value) ==
    LET l1 == IterFirst(value) IN
    IF ~l1.ok THEN l1 ELSE
    LET l2 == IterFirst(l1.v) IN
    IF ~l2.ok THEN l2 ELSE
    LET l3 == IterFirst(l2.v) IN
    IF ~l3.ok THEN l3 ELSE
    IF as_str(l3.v).ok THEN as_str(l3.v) ELSE Err(DecodeError)

\* the "xesam:title" arm
TitleOf(value) ==
    IF as_str(value).ok THEN as_str(value) ELSE Err(DecodeError)

RECURSIVE ExtractLoop(_, _, _, _)
\* the while-let loop over alternating keys and values, from position i
ExtractLoop(items, i, title, artist) ==
    IF i > Len(items) THEN Ok(<<title, artist>>)
    ELSE IF i + 1 > Len(items) THEN Err(DecodeError)
    ELSE LET key   == items[i]
             value == items[i + 1]
         IN  IF ~as_str(key).ok THEN Err(DecodeError)
             ELSE IF as_str(key).v = "xesam:artist"
                  THEN IF ArtistOf(value).ok
                       THEN ExtractLoop(items, i + 2, title, ArtistOf(value).v)
                       ELSE Err(DecodeError)
             ELSE IF as_str(key).v = "xesam:title"
                  THEN IF TitleOf(value).ok
                       THEN ExtractLoop(items, i + 2, TitleOf(value).v, artist)
                       ELSE Err(DecodeError)
             ELSE ExtractLoop(items, i + 2, title, artist)

extract_from_metadata(metadata) ==
    IF ~as_iter(metadata).ok THEN Err(DecodeError)
    ELSE ExtractLoop(as_iter(metadata).v, 1, "", "")

\* format!("{} | {}", title, artist)
FormatText(title, artist) == title \o " | " \o artist

-----------------------------------------------------------------------------
(* The rotating text widget (specification section 4.2) *)

NoTimer == -1       \* the host has no timed wake pending for the widget
AdvanceTicks == 1   \* clock ticks between two advances of the offset

\* RotatingTextWidget::new: empty text, nothing to rotate
RTNew(width) ==
    [content |-> "", width |-> width, offset |-> 0, phase |-> "static",
     wait |-> 0]

\* whether the widget rotates this text at all
Overflows(width, text) == width > 0 /\ Len(text) > width

\* set_text that restarts the hold phase whatever the text
RTSetText_restart(w, text) ==
    [w EXCEPT !.content = text,
              !.offset = 0,
              !.phase = IF Overflows(w.width, text) THEN "hold" ELSE "static",
              !.wait = IF Overflows(w.width, text) THEN HoldTicks ELSE 0]

\* set_text: a different text resets the offset and restarts the hold phase,
\* the same text leaves the rotation state alone
RTSetText(w, text) ==
    IF text # w.content
    THEN [w EXCEPT !.content = text,
                   !.offset = 0,
                   !.phase = IF Overflows(w.width, text) THEN "hold"
                             ELSE "static",
                   !.wait = IF Overflows(w.width, text) THEN HoldTicks ELSE 0]
    ELSE w

\* next/advance: the widget after the call, whether it rotated, and the hint
RTNext(w) ==
    IF w.phase = "static"
    THEN [w |-> w, rotated |-> FALSE, hint |-> "None"]
    ELSE IF w.wait > 0
    THEN [w |-> w, rotated |-> FALSE,
          hint |-> IF w.phase = "hold" THEN "1s" ELSE "500ms"]
    ELSE [w |-> [w EXCEPT !.phase = "advance",
                          !.offset = (w.offset + 1) % Len(w.content),
                          !.wait = AdvanceTicks],
          rotated |-> TRUE, hint |-> "500ms"]

\* the text the widget shows: the whole text when it fits, else a window of
\* width characters starting at offset on the text taken as a circle
visible_window(w) ==
    IF w.width = 0 THEN ""
    ELSE IF Len(w.content) <= w.width THEN w.content
    ELSE LET twice == w.content \o w.content
         IN  SubSeq(twice, w.offset + 1, w.offset + w.width)

-----------------------------------------------------------------------------
(* Music::new: the id, the spawn of the listener thread, the button loop   *)
(* and the struct literal                                                  *)

NoButtons == [prev |-> "None", play |-> "None", next |-> "None"]

RECURSIVE ButtonLoop_lenient(_, _, _)
\* ButtonLoop that skips an identifier it does not know
ButtonLoop_lenient(cfg, i, b) ==
    IF i > Len(cfg) THEN Ok(b)
    ELSE IF cfg[i] = "play"
         THEN ButtonLoop_lenient(cfg, i + 1, [b EXCEPT !.play = "music_play"])
    ELSE IF cfg[i] = "next"
         THEN ButtonLoop_lenient(cfg, i + 1, [b EXCEPT !.next = "music_next"])
    ELSE IF cfg[i] = "prev"
         THEN ButtonLoop_lenient(cfg, i + 1, [b EXCEPT !.prev = "music_prev"])
    ELSE ButtonLoop_lenient(cfg, i + 1, b)

RECURSIVE ButtonLoop_swapped(_, _, _)
\* ButtonLoop whose "next" arm fills the prev slot
ButtonLoop_swapped(cfg, i, b) ==
    IF i > Len(cfg) THEN Ok(b)
    ELSE IF cfg[i] = "play"
         THEN ButtonLoop_swapped(cfg, i + 1, [b EXCEPT !.play = "music_play"])
    ELSE IF cfg[i] = "next"
         THEN ButtonLoop_swapped(cfg, i + 1, [b EXCEPT !.prev = "music_prev"])
    ELSE IF cfg[i] = "prev"
         THEN ButtonLoop_swapped(cfg, i + 1, [b EXCEPT !.prev = "music_prev"])
    ELSE Err("unknown music button identifier")

RECURSIVE ButtonLoop(_, _, _)
\* the for loop over block_config.buttons from position i: each known
\* identifier assigns a fresh button with its icon, the first unknown one
\* leaves the constructor with an error
ButtonLoop(cfg, i, b) ==
    IF i > Len(cfg) THEN Ok(b)
    ELSE IF cfg[i] = "play"
         THEN ButtonLoop(cfg, i + 1, [b EXCEPT !.play = "music_play"])
    ELSE IF cfg[i] = "next"
         THEN ButtonLoop(cfg, i + 1, [b EXCEPT !.next = "music_next"])
    ELSE IF cfg[i] = "prev"
         THEN ButtonLoop(cfg, i + 1, [b EXCEPT !.prev = "music_prev"])
    ELSE Err("unknown music button identifier")

\* uuid: what Uuid::new_v4 returns; connOk: whether the widget's own
\* Connection::get_private works.  The thread is spawned, with its clone of
\* the id, before anything that can fail.  What the host does with the
\* outcome (chan, timer) is the caller's.
New(cfg, width, mq, pl, connOk, uuid) ==
    /\ pc = "start"
    /\ buttons' = cfg
    /\ op' = "new"
    /\ queries' = <<>>
    /\ calls' = <<>>
    /\ arg' = IF connOk THEN "bus up" ELSE "bus down"
    /\ listener' = "spawned"
    /\ lid' = uuid
    /\ UNCHANGED bus
    /\ IF ~ButtonLoop(cfg, 1, NoButtons).ok
       THEN /\ pc' = "failed"
            /\ ret' = ButtonLoop(cfg, 1, NoButtons)
            /\ UNCHANGED <<marquee, player, widget, id>>
       ELSE IF ~connOk
       THEN /\ pc' = "failed"
            /\ ret' = Err("failed to establish D-Bus connection")
            /\ UNCHANGED <<marquee, player, widget, id>>
       ELSE /\ pc' = "ready"
            /\ ret' = Ok("Music")
            /\ id' = uuid
            /\ current_song' = RTNew(width)
            /\ prev' = ButtonLoop(cfg, 1, NoButtons).v.prev
            /\ play' = ButtonLoop(cfg, 1, NoButtons).v.play
            /\ next' = ButtonLoop(cfg, 1, NoButtons).v.next
            /\ player_avail' = FALSE
            /\ player' = pl
            /\ marquee' = mq

-----------------------------------------------------------------------------
(* Block::view *)

Present(b, name) == IF b # "None" THEN <<name>> ELSE <<>>

\* View that shows the buttons of a player that is not available
View_always ==
    <<"current_song">> \o Present(prev, "prev") \o Present(play, "play")
                       \o Present(next, "next")

View ==
    IF player_avail
    THEN <<"current_song">> \o Present(prev, "prev") \o Present(play, "play")
                            \o Present(next, "next")
    ELSE <<"current_song">>

-----------------------------------------------------------------------------
(* Block::update (on_wake) *)

\* RotationStep that steps the timer but never reports a rotation
RotationStep_blind(mq, w) ==
    IF mq THEN [RTNext(w) EXCEPT !.rotated = FALSE]
    ELSE [w |-> w, rotated |-> FALSE, hint |-> "None"]

\* the first statement: the rotation step, taken only with marquee on
RotationStep(mq, w) ==
    IF mq THEN RTNext(w) ELSE [w |-> w, rotated |-> FALSE, hint |-> "None"]

\* TextFor that formats two empty fields when the read failed
TextFor_unclear(data) ==
    IF ~data.ok THEN FormatText("", "")
    ELSE LET ex == extract_from_metadata(data.v)
             ta == IF ex.ok THEN ex.v ELSE <<"", "">>
         IN  FormatText(ta[1], ta[2])

\* the text handed to set_text after a read of "Metadata" answered data
TextFor(data) ==
    IF ~data.ok THEN ""
    ELSE LET ex == extract_from_metadata(data.v)
             ta == IF ex.ok THEN ex.v ELSE <<"", "">>
         IN  FormatText(ta[1], ta[2])

\* AvailFor that never marks the player unavailable
AvailFor_sticky(data) == TRUE

\* player_avail after a read of "Metadata" answered data
AvailFor(data) == data.ok

\* PlayIcon that never shows the pause icon
PlayIcon_stuck(data) == "music_play"

\* the icon set on the play button after a read of "PlaybackStatus"
\* answered data
PlayIcon(data) ==
    IF ~data.ok THEN "music_play"
    ELSE LET state == as_str(data.v)
             differs == IF state.ok THEN state.v # "Playing" ELSE FALSE
         IN  IF differs THEN "music_play" ELSE "music_pause"

\* WakeDelay without the one-second poll of the (None, true) arm
WakeDelay_nopoll(hint, mq) == hint

\* the final match on (next, self.marquee)
WakeDelay(hint, mq) ==
    IF hint # "None" THEN hint
    ELSE IF mq THEN "1s"
    ELSE "None"

Update ==
    /\ pc = "ready"
    /\ LET r == RotationStep(marquee, current_song)
       IN  /\ IF ~r.rotated
              THEN /\ current_song' = RTSetText(r.w, TextFor(player_meta))
                   /\ player_avail' = AvailFor(player_meta)
                   /\ IF play # "None"
                      THEN /\ play' = PlayIcon(player_status)
                           /\ queries' = <<"Metadata", "PlaybackStatus">>
                      ELSE /\ play' = play
                           /\ queries' = <<"Metadata">>
              ELSE /\ current_song' = r.w
                   /\ queries' = <<>>
                   /\ UNCHANGED <<player_avail, play>>
           /\ ret' = Ok(WakeDelay(r.hint, marquee))
           /\ arg' = IF r.rotated THEN "rotated" ELSE "queried"
    /\ op' = "update"
    /\ calls' = <<>>
    /\ UNCHANGED <<pc, cfgvars, prev, next, bus>>

-----------------------------------------------------------------------------
(* Block::click (on_click) *)

\* ClickAction with the methods of "next" and "prev" exchanged
ClickAction_crossed(name) ==
    IF name = "play" THEN "PlayPause"
    ELSE IF name = "next" THEN "Previous"
    ELSE IF name = "prev" THEN "Next"
    ELSE ""

\* the match on the event's name
ClickAction(name) ==
    IF name = "play" THEN "PlayPause"
    ELSE IF name = "next" THEN "Next"
    ELSE IF name = "prev" THEN "Previous"
    ELSE ""

\* SendResult that swallows a failed send
SendResult_swallow(sendOk) == Ok("()")

\* the Result of send(m).block_error(..).map(|_| ())
SendResult(sendOk) ==
    IF sendOk THEN Ok("()") ELSE Err("failed to call method via D-Bus")

\* Click that flips the play button's icon itself when PlayPause was sent
Click_eager(name, msgOk, sendOk) ==
    /\ pc = "ready"
    /\ op' = "click"
    /\ arg' = name
    /\ queries' = <<>>
    /\ IF name = "None" \/ ClickAction(name) = ""
       THEN /\ calls' = <<>>
            /\ ret' = Ok("()")
            /\ play' = play
       ELSE IF ~msgOk
       THEN /\ calls' = <<>>
            /\ ret' = Err("failed to create D-Bus method call")
            /\ play' = play
       ELSE /\ calls' = <<[method |-> ClickAction(name), sent |-> sendOk]>>
            /\ ret' = SendResult(sendOk)
            /\ play' = IF name = "play" /\ sendOk /\ play = "music_play"
                       THEN "music_pause" ELSE play
    /\ UNCHANGED <<pc, cfgvars, current_song, prev, next, player_avail, bus>>

\* name: Some(n) as n, None as "None"; msgOk: whether
\* Message::new_method_call accepts the destination built from the player's
\* name; sendOk: whether Connection::send works
Click(name, msgOk, sendOk) ==
    /\ pc = "ready"
    /\ op' = "click"
    /\ arg' = name
    /\ queries' = <<>>
    /\ IF name = "None" \/ ClickAction(name) = ""
       THEN /\ calls' = <<>>
            /\ ret' = Ok("()")
       ELSE IF ~msgOk
       THEN /\ calls' = <<>>
            /\ ret' = Err("failed to create D-Bus method call")
       ELSE /\ calls' = <<[method |-> ClickAction(name), sent |-> sendOk]>>
            /\ ret' = SendResult(sendOk)
    /\ UNCHANGED <<pc, cfgvars, widget, bus>>

-----------------------------------------------------------------------------
(* Environment: the clock and the player on the bus *)

\* one clock tick passes while the widget waits for its next rotation
Tick ==
    /\ pc = "ready"
    /\ current_song.wait > 0
    /\ current_song' = [current_song EXCEPT !.wait = current_song.wait - 1]
    /\ op' = "tick"
    /\ ret' = Ok("-")
    /\ queries' = <<>>
    /\ calls' = <<>>
    /\ arg' = "-"
    /\ UNCHANGED <<pc, cfgvars, prev, play, next, player_avail, bus>>

\* the artist value of a well-formed bag: three levels, the names innermost
Artist3(a) == Seq1(<<Seq1(<<Seq1(<<Str(a), Str("Guest")>>)>>)>>)
\* an artist value nested one level short
Artist2(a) == Seq1(<<Seq1(<<Str(a), Str("Guest")>>)>>)

\* a property read that fails: no such player, or the 1000 ms timeout
NoAnswer == Err(Str("no reply"))

\* answers to a read of "Metadata": an error, a well-formed bag, a bag
\* whose artist is nested one level short
MetaAnswers ==
    { NoAnswer,
      Ok(Seq1(<<Str("xesam:title"), Str("S"),
                Str("xesam:artist"), Artist3("A")>>)),
      Ok(Seq1(<<Str("xesam:title"), Str("S"),
                Str("xesam:artist"), Artist2("A")>>)) }

\* answers to a read of "PlaybackStatus"
StatusAnswers ==
    { NoAnswer, Ok(Str("Playing")), Ok(Str("Paused")), Ok(Int0) }

\* the player starts, stops, changes track or changes playback state
PlayerChange(m, s) ==
    /\ pc = "ready"
    /\ <<m, s>> # <<player_meta, player_status>>
    /\ player_meta' = m
    /\ player_status' = s
    /\ op' = "player"
    /\ ret' = Ok("-")
    /\ queries' = <<>>
    /\ calls' = <<>>
    /\ arg' = "-"
    /\ UNCHANGED <<pc, cfgvars, widget>>

-----------------------------------------------------------------------------
(* The specification *)

RECURSIVE SeqsUpTo(_, _)
\* the sequences over S of length at most n
SeqsUpTo(S, n) ==
    IF n = 0 THEN {<<>>}
    ELSE LET shorter == SeqsUpTo(S, n - 1)
         IN  shorter \cup {Append(q, x) : q \in shorter, x \in S}

\* button identifiers a configuration may name: the three known ones and
\* one the block does not know
ButtonNames   == {"prev", "play", "next", "stop"}
ButtonConfigs == SeqsUpTo(ButtonNames, MaxButtons)
Widths        == {4}
Players       == {"spotify"}
ClickNames    == {"prev", "play", "next", "unknown", "None"}

Init ==
    /\ pc = "start"
    /\ buttons = <<>>
    /\ marquee = FALSE
    /\ player = ""
    /\ current_song = RTNew(0)
    /\ prev = "None"
    /\ play = "None"
    /\ next = "None"
    /\ player_avail = FALSE
    /\ player_meta = NoAnswer
    /\ player_status = NoAnswer
    /\ op = "none"
    /\ ret = Ok("-")
    /\ queries = <<>>
    /\ calls = <<>>
    /\ arg = "-"
    /\ id = ""
    /\ listener = "none"
    /\ lid = ""
    /\ chan = <<>>
    /\ timer = NoTimer

\* the widget's own behaviour does not depend on which id it drew
OneUuid == {"u1"}

Construct ==
    \E cfg \in ButtonConfigs, width \in Widths, mq \in BOOLEAN,
       pl \in Players, connOk \in BOOLEAN, uuid \in OneUuid :
        New(cfg, width, mq, pl, connOk, uuid) /\ UNCHANGED <<chan, timer>>

\* the host calls on_wake, for whatever reason
OnWake == Update /\ UNCHANGED host

OnClick ==
    \E name \in ClickNames, msgOk \in BOOLEAN, sendOk \in BOOLEAN :
        Click(name, msgOk, sendOk) /\ UNCHANGED host

\* time passes for the rotation
Clock == Tick /\ UNCHANGED host

Player ==
    \E m \in MetaAnswers, s \in StatusAnswers :
        PlayerChange(m, s) /\ UNCHANGED host

Next == Construct \/ OnWake \/ OnClick \/ Clock \/ Player

Spec == Init /\ [][Next]_vars

-----------------------------------------------------------------------------
(* The listener thread and the host around the widget                      *)

PlayerPath    == "/org/mpris/MediaPlayer2"
ChangedMember == "PropertiesChanged"
Paths   == {PlayerPath, "/org/freedesktop/DBus"}
Members == {ChangedMember, "Seeked"}
Uuids   == {"u1", "u2"}

\* the thread's first two statements: its own session connection and its
\* match rule, both unwrapped, so a failure ends the thread
ListenerConnect(ok) ==
    /\ listener = "spawned"
    /\ listener' = IF ok THEN "listening" ELSE "dead"
    /\ op' = "connect"
    /\ ret' = Ok("-")
    /\ queries' = <<>>
    /\ calls' = <<>>
    /\ arg' = IF ok THEN "bus up" ELSE "bus down"
    /\ UNCHANGED <<pc, cfgvars, widget, bus, id, lid, chan, timer>>

\* a notification that only matches the member
ListenerPosts_anypath(path, member) == member = ChangedMember

\* the two nested tests on a signal
ListenerPosts(path, member) == path = PlayerPath /\ member = ChangedMember

SignalName(path, member) == path \o " " \o member

\* one item of the connection's iterator that is a signal
ListenerSignal(path, member) ==
    /\ listener = "listening"
    /\ Len(chan) < MaxChan
    /\ chan' = IF ListenerPosts(path, member) THEN Append(chan, lid) ELSE chan
    /\ op' = "signal"
    /\ ret' = Ok("-")
    /\ queries' = <<>>
    /\ calls' = <<>>
    /\ arg' = SignalName(path, member)
    /\ UNCHANGED <<pc, cfgvars, widget, bus, id, listener, lid, timer>>

\* a clock tick is 500 ms
TimerFor(delay) ==
    CASE delay = "None"  -> NoTimer
      [] delay = "500ms" -> 1
      [] delay = "1s"    -> 2

\* what on_wake is about to return, as the host's next timed wake
NextTimer == TimerFor(WakeDelay(RotationStep(marquee, current_song).hint,
                                marquee))

\* the host takes a posted wake off its channel and calls update
SignalWake ==
    /\ chan # <<>>
    /\ chan[1] = id
    /\ chan' = Tail(chan)
    /\ timer' = NextTimer
    /\ UNCHANGED <<id, listener, lid>>
    /\ Update

\* the host's timed wake is due and it calls update
TimerWake ==
    /\ timer = 0
    /\ timer' = NextTimer
    /\ UNCHANGED <<id, listener, lid, chan>>
    /\ Update

\* time passes for the rotation and for the host's timed wake
Elapse ==
    /\ pc = "ready"
    /\ current_song.wait > 0 \/ timer > 0
    /\ current_song' = [current_song EXCEPT
                            !.wait = IF @ > 0 THEN @ - 1 ELSE @]
    /\ timer' = IF timer > 0 THEN timer - 1 ELSE timer
    /\ op' = "tick"
    /\ ret' = Ok("-")
    /\ queries' = <<>>
    /\ calls' = <<>>
    /\ arg' = "-"
    /\ UNCHANGED <<pc, cfgvars, prev, play, next, player_avail, bus, id,
                   listener, lid, chan>>

HostButtonConfigs == {<<>>, <<"play">>, <<"stop">>}
HostStatusAnswers == {NoAnswer, Ok(Str("Playing"))}
HostClickNames    == {"play", "unknown"}

\* the host builds the block and schedules its first update at once
HostConstruct ==
    \E cfg \in HostButtonConfigs, width \in Widths, mq \in BOOLEAN,
       pl \in Players, connOk \in BOOLEAN, uuid \in Uuids :
        /\ New(cfg, width, mq, pl, connOk, uuid)
        /\ timer' = IF ButtonLoop(cfg, 1, NoButtons).ok /\ connOk
                    THEN 0 ELSE NoTimer
        /\ chan' = chan

Connect == \E ok \in BOOLEAN : ListenerConnect(ok)

Signal == \E path \in Paths, member \in Members : ListenerSignal(path, member)

HostClick ==
    \E name \in HostClickNames, msgOk \in BOOLEAN, sendOk \in BOOLEAN :
        Click(name, msgOk, sendOk) /\ UNCHANGED host

HostPlayer ==
    \E m \in MetaAnswers, s \in HostStatusAnswers :
        PlayerChange(m, s) /\ UNCHANGED host

NextHost ==
    \/ HostConstruct \/ Connect \/ Signal \/ SignalWake \/ TimerWake
    \/ Elapse \/ HostClick \/ HostPlayer

SpecHost == Init /\ [][NextHost]_vars

-----------------------------------------------------------------------------
(* The decoder on its own: the bus holds one of many bags, the widget has   *)
(* just been constructed with the default width and no buttons, and         *)
(* on_wake reads the bag.                                                   *)

BagKeys   == {Str("xesam:title"), Str("xesam:artist"), Str("xesam:album"),
              Int0}
BagValues == {Str("Song"), Str("Tune"), Artist3("Artist"), Artist2("Artist")}
BagPairs  == {<<key, value>> : key \in BagKeys, value \in BagValues}

RECURSIVE Flatten(_)
\* the items of a dictionary, keys and values alternating
Flatten(pairs) ==
    IF pairs = <<>> THEN <<>>
    ELSE <<pairs[1][1], pairs[1][2]>> \o Flatten(Tail(pairs))

\* bags of at most MaxPairs pairs, short bags with a trailing key that has
\* no value, and two values that cannot be iterated at all
DecoderInputs ==
    {Seq1(Flatten(ps)) : ps \in SeqsUpTo(BagPairs, MaxPairs)}
    \cup {Seq1(Append(Flatten(ps), Str("xesam:title"))) :
              ps \in SeqsUpTo(BagPairs, 1)}
    \cup {Int0, Str("Song")}

InitDecode ==
    /\ pc = "ready"
    /\ buttons = <<>>
    /\ marquee = FALSE
    /\ player = "spotify"
    /\ current_song = RTNew(21)
    /\ prev = "None"
    /\ play = "None"
    /\ next = "None"
    /\ player_avail = FALSE
    /\ player_meta \in {Ok(bag) : bag \in DecoderInputs}
    /\ player_status = NoAnswer
    /\ op = "new"
    /\ ret = Ok("Music")
    /\ queries = <<>>
    /\ calls = <<>>
    /\ arg = "bus up"
    /\ id = "u1"
    /\ listener = "spawned"
    /\ lid = "u1"
    /\ chan = <<>>
    /\ timer = NoTimer

NextDecode == Update /\ UNCHANGED host

SpecDecode == InitDecode /\ [][NextDecode]_vars

-----------------------------------------------------------------------------
(* Properties of the update cycle and of view() *)

\* the last operation was an on_wake that read "Metadata"
Queried == op = "update" /\ arg = "queried"

\* the button named b, if the configuration names it anywhere
Configured(b) ==
    IF \E i \in 1..Len(buttons) : buttons[i] = b THEN <<b>> ELSE <<>>

\* C1: after an on_wake whose read of "Metadata" failed, availability is
\* false, the text is empty and view() has exactly one element, the text,
\* whatever buttons are configured.
C1_QueryFailure ==
    (Queried /\ ~player_meta.ok) =>
        /\ player_avail = FALSE
        /\ current_song.content = ""
        /\ Len(View) = 1
        /\ View[1] = "current_song"

C1_Witness ==
    /\ Queried
    /\ ~player_meta.ok
    /\ prev # "None"
    /\ play # "None"

\* C2: after an on_wake whose read of "Metadata" succeeded, availability is
\* true and view() is the text followed by the configured buttons in the
\* order prev, play, next, whatever their order or repetition in the
\* configuration.
C2_QuerySuccess ==
    (Queried /\ player_meta.ok) =>
        /\ player_avail = TRUE
        /\ View = <<"current_song">> \o Configured("prev")
                    \o Configured("play") \o Configured("next")

C2_Witness ==
    /\ Queried
    /\ player_meta.ok
    /\ buttons \in {<<"next", "prev">>, <<"next", "next">>}

\* C3: in every state of a constructed widget, if availability is false the
\* text is empty, nothing of it is visible and view() exposes the text
\* element alone.
C3_UnavailableIsEmpty ==
    (pc = "ready" /\ ~player_avail) =>
        /\ current_song.content = ""
        /\ visible_window(current_song) = ""
        /\ View = <<"current_song">>

C3_Witness ==
    /\ pc = "ready"
    /\ ~player_avail
    /\ op = "click"
    /\ play # "None"
    /\ player_meta.ok

-----------------------------------------------------------------------------
(* Properties of the decoder *)

\* the positions of key name among the keys of a bag's items
KeyPositions(items, name) ==
    {i \in 1..Len(items) : i % 2 = 1 /\ items[i] = Str(name)}

\* the value stored under the only occurrence of key name
ValueAt(items, name) ==
    items[(CHOOSE i \in KeyPositions(items, name) : TRUE) + 1]

\* an even number of items, every key a string
PairsWithStringKeys(items) ==
    /\ Len(items) % 2 = 0
    /\ \A i \in 1..Len(items) : i % 2 = 1 => items[i].k = "str"

\* a value nested three levels deep with a string first at the innermost
ThreeDeep(x) ==
    /\ x.k = "seq" /\ Len(x.q) > 0
    /\ x.q[1].k = "seq" /\ Len(x.q[1].q) > 0
    /\ x.q[1].q[1].k = "seq" /\ Len(x.q[1].q[1].q) > 0
    /\ x.q[1].q[1].q[1].k = "str"

\* a bag whose title is "Song" and whose artist is missing or nested two
\* levels only, everything else in order
MalformedArtist(bag) ==
    /\ bag.k = "seq"
    /\ PairsWithStringKeys(bag.q)
    /\ Cardinality(KeyPositions(bag.q, "xesam:title")) = 1
    /\ ValueAt(bag.q, "xesam:title") = Str("Song")
    /\ \/ KeyPositions(bag.q, "xesam:artist") = {}
       \/ /\ Cardinality(KeyPositions(bag.q, "xesam:artist")) = 1
          /\ ValueAt(bag.q, "xesam:artist") = Artist2("Artist")

\* C4: a bag with title "Song" whose artist is missing or nested two levels
\* only decodes to ("Song", "") and on_wake sets the text built from title
\* "Song" and an empty artist.
C4_MalformedArtistKeepsTitle ==
    (Queried /\ player_meta.ok /\ MalformedArtist(player_meta.v)) =>
        /\ extract_from_metadata(player_meta.v).ok
        /\ extract_from_metadata(player_meta.v).v = <<"Song", "">>
        /\ current_song.content = "Song | "

\* a well-formed bag: one scalar title, one artist three levels deep
WellFormed(bag) ==
    /\ bag.k = "seq"
    /\ PairsWithStringKeys(bag.q)
    /\ Cardinality(KeyPositions(bag.q, "xesam:title")) = 1
    /\ ValueAt(bag.q, "xesam:title").k = "str"
    /\ Cardinality(KeyPositions(bag.q, "xesam:artist")) = 1
    /\ ThreeDeep(ValueAt(bag.q, "xesam:artist"))

TitleIn(bag)  == ValueAt(bag.q, "xesam:title").s
ArtistIn(bag) == ValueAt(bag.q, "xesam:artist").q[1].q[1].q[1].s

\* C5: a well-formed bag, in any key order and with any other keys, decodes
\* to its title t and the first innermost artist a, and on_wake sets the
\* text to "t | a".
C5_WellFormedDecodes ==
    (Queried /\ player_meta.ok /\ WellFormed(player_meta.v)) =>
        /\ extract_from_metadata(player_meta.v).ok
        /\ extract_from_metadata(player_meta.v).v
               = <<TitleIn(player_meta.v), ArtistIn(player_meta.v)>>
        /\ current_song.content
               = TitleIn(player_meta.v) \o " | " \o ArtistIn(player_meta.v)

\* a bag with an unrelated key first, then the artist, then the title
C5_Witness ==
    /\ Queried
    /\ player_meta.ok
    /\ WellFormed(player_meta.v)
    /\ Len(player_meta.v.q) = 6
    /\ KeyPositions(player_meta.v.q, "xesam:album") = {1}
    /\ KeyPositions(player_meta.v.q, "xesam:artist") = {3}
    /\ current_song.content = "Tune | Artist"

-----------------------------------------------------------------------------
(* Properties of on_click *)

Recognized == {"prev", "play", "next"}

\* the bus method the specification assigns to a recognized name
MethodFor(name) ==
    CASE name = "prev" -> "Previous"
      [] name = "play" -> "PlayPause"
      [] name = "next" -> "Next"

\* the names of the methods the last operation handed to send()
MethodsCalled == [i \in 1..Len(calls) |-> calls[i].method]

\* C6 as stated: a recognized name issues exactly one call of its method;
\* any other name, or no name, issues none and returns success.
C6_ExactlyOneCall ==
    op = "click" =>
        IF arg \in Recognized
        THEN MethodsCalled = <<MethodFor(arg)>>
        ELSE calls = <<>> /\ ret.ok

\* C6 amended: a recognized name issues exactly one call of its method,
\* unless constructing the method call fails, in which case it issues none
\* and that error is returned; any other name, or no name, issues none and
\* returns success.
C6_OneCallUnlessNotConstructed ==
    op = "click" =>
        IF arg \in Recognized
        THEN \/ MethodsCalled = <<MethodFor(arg)>>
             \/ /\ calls = <<>>
                /\ ~ret.ok
                /\ ret.v = "failed to create D-Bus method call"
        ELSE calls = <<>> /\ ret.ok

C6_Witness ==
    /\ op = "click"
    /\ arg = "prev"
    /\ MethodsCalled = <<"Previous">>

\* C7: for a recognized action on_click returns an error when constructing
\* the call fails (no call reaches send) or sending it fails, and returns
\* success only if the call was sent.
C7_FailurePropagates ==
    (op = "click" /\ arg \in Recognized) =>
        /\ calls = <<>> => ~ret.ok
        /\ (Len(calls) = 1 /\ ~calls[1].sent) => ~ret.ok
        /\ ret.ok => (Len(calls) = 1 /\ calls[1].sent)

C7_Witness ==
    /\ op = "click"
    /\ arg = "play"
    /\ Len(calls) = 1
    /\ ~calls[1].sent
    /\ ~ret.ok

-----------------------------------------------------------------------------
(* Properties of what on_wake returns and of the play icon *)

\* C8: on_wake returns success whatever the two reads answer and whether
\* or not the bag decodes; a failed "Metadata" read leaves the widget
\* unavailable with an empty text, an undecodable bag leaves it available
\* with two empty fields.
C8_UpdateNeverFails ==
    op = "update" =>
        /\ ret.ok
        /\ (Queried /\ ~player_meta.ok) =>
               (~player_avail /\ current_song.content = "")
        /\ (Queried /\ player_meta.ok
                /\ ~extract_from_metadata(player_meta.v).ok) =>
               (player_avail /\ current_song.content = " | ")

\* both reads fail with a play button configured
C8_Witness ==
    /\ Queried
    /\ queries = <<"Metadata", "PlaybackStatus">>
    /\ ~player_meta.ok
    /\ ~player_status.ok
    /\ ret.ok

\* C9: with a play button configured, after an on_wake that read
\* "PlaybackStatus" the icon is 'pause' exactly when the read succeeded with
\* the string "Playing", and 'play' otherwise, a value that is not a string
\* included.
C9_PauseOnlyWhenPlaying ==
    (Queried /\ play # "None") =>
        play = IF player_status.ok /\ player_status.v.k = "str"
                    /\ player_status.v.s = "Playing"
               THEN "music_pause"
               ELSE "music_play"

\* the current text fits the configured width
Fits == Len(current_song.content) <= current_song.width

\* C10 as stated: on_wake returns None whenever marquee is off or the text
\* fits, and a delay only when marquee is on and the text exceeds the width.
C10_NoneWhenFits ==
    op = "update" =>
        /\ (~marquee \/ Fits) => ret.v = "None"
        /\ ret.v # "None" => (marquee /\ ~Fits)

\* C10 amended: on_wake returns None exactly when marquee is off; with
\* marquee on it always returns a delay, which is one second when the text
\* the rotation timer looked at fits the width.
C10_NoneIffMarqueeOff ==
    [][op' = "update" =>
          /\ ret'.ok
          /\ ret'.v = "None" <=> ~marquee
          /\ (marquee /\ Fits) => ret'.v = "1s"]_vars

\* marquee on, a text that fits before and after, and a one-second delay
C10_Witness ==
    /\ op = "update"
    /\ marquee
    /\ player_avail
    /\ Fits
    /\ ret.v = "1s"

-----------------------------------------------------------------------------
(* C11 *)

PlayerChanged == SignalName(PlayerPath, ChangedMember)

\* C11: a PropertiesChanged notification on /org/mpris/MediaPlayer2 makes
\* the listener post one wake, carrying the id the thread holds, and any
\* other notification posts nothing; that id is the widget's id(), which
\* never changes once the widget exists, so every wake in the channel of a
\* constructed widget carries it.
C11_WakesCarryTheWidgetId ==
    [][ /\ op' = "signal" =>
              chan' = IF arg' = PlayerChanged THEN Append(chan, lid)
                      ELSE chan
        /\ pc = "ready" => id' = id /\ lid' = lid
        /\ pc' = "ready" =>
              /\ lid' = id'
              /\ \A i \in 1..Len(chan') : chan'[i] = id' ]_vars

C11_Witness ==
    /\ pc = "ready"
    /\ op = "signal"
    /\ arg = PlayerChanged
    /\ Len(chan) = 2
    /\ chan[2] = id

-----------------------------------------------------------------------------
(* A running widget with marquee enabled, its listener and its host, with  *)
(* time that passes and wakes that are served                              *)

\* the state a successful construction leaves, the first update scheduled,
\* once the listener thread has connected or died trying
InitLive ==
    /\ pc = "ready"
    /\ buttons = <<>>
    /\ marquee = TRUE
    /\ player \in Players
    /\ current_song \in {RTNew(width) : width \in Widths}
    /\ prev = "None"
    /\ play = "None"
    /\ next = "None"
    /\ player_avail = FALSE
    /\ player_meta = NoAnswer
    /\ player_status = NoAnswer
    /\ op = "new"
    /\ ret = Ok("Music")
    /\ queries = <<>>
    /\ calls = <<>>
    /\ arg = "bus up"
    /\ id = "u1"
    /\ listener \in {"listening", "dead"}
    /\ lid = "u1"
    /\ chan = <<>>
    /\ timer = 0

LiveSignal == ListenerSignal(PlayerPath, ChangedMember)

LivePlayer == \E m \in MetaAnswers : PlayerChange(m, NoAnswer) /\ UNCHANGED host

NextLive ==
    LiveSignal \/ SignalWake \/ TimerWake \/ Elapse \/ LivePlayer

\* the clock advances, a due timed wake is served and so is a posted one;
\* serving a timed wake always changes timer, serving a posted one chan
HostFairness ==
    /\ WF_vars(Elapse)
    /\ WF_timer(TimerWake)
    /\ WF_chan(SignalWake)

SpecLive == InitLive /\ [][NextLive]_vars /\ HostFairness

-----------------------------------------------------------------------------
(* C12 *)

\* the widget shows what the player answers now
Reflects ==
    /\ current_song.content = TextFor(player_meta)
    /\ player_avail = AvailFor(player_meta)

\* C12: once the listener is dead, a widget with marquee enabled still
\* comes to show the state the player is in, driven by its own returned
\* wake delays alone.
C12_FallbackReflectsChanges ==
    (pc = "ready" /\ marquee /\ listener = "dead") ~> Reflects

-----------------------------------------------------------------------------
(* C13 *)

KnownButtons == {"prev", "play", "next"}

\* the configuration names an identifier the block does not know
NamesUnknown == \E i \in 1..Len(buttons) : buttons[i] \notin KnownButtons

\* the slot of button b holds a button
HasButton(b) ==
    CASE b = "prev" -> prev # "None"
      [] b = "play" -> play # "None"
      [] b = "next" -> next # "None"

\* C13: a construction whose configuration names an unknown button
\* identifier, at whatever position, returns the error and leaves no
\* widget; one that names only known identifiers, with a working bus
\* connection, succeeds and has exactly the named buttons.
C13_UnknownButtonFailsConstruction ==
    op = "new" =>
        IF NamesUnknown
        THEN /\ pc = "failed"
             /\ ~ret.ok
             /\ ret.v = "unknown music button identifier"
        ELSE arg = "bus up" =>
                /\ pc = "ready"
                /\ ret.ok
                /\ \A b \in KnownButtons :
                       HasButton(b) <=> Configured(b) # <<>>

C13_Witness ==
    /\ op = "new"
    /\ pc = "failed"
    /\ Len(buttons) = 2
    /\ buttons[1] \in KnownButtons
    /\ buttons[2] \notin KnownButtons

C13_WitnessSuccess ==
    /\ op = "new"
    /\ pc = "ready"
    /\ buttons = <<"next", "prev">>
    /\ play = "None"

-----------------------------------------------------------------------------
(* C14 *)

\* the rotation timer is about to report rotated = true
RotationDue == marquee /\ RTNext(current_song).rotated

\* C14: an on_wake on which the rotation timer reports rotated = true
\* issues no bus query, leaves availability and the play button's icon as
\* they were, and returns exactly the wake hint the rotation timer gave.
C14_RotatedTickSkipsQueries ==
    [][ (pc = "ready" /\ RotationDue /\ op' = "update") =>
            /\ queries' = <<>>
            /\ player_avail' = player_avail
            /\ play' = play
            /\ ret' = Ok(RTNext(current_song).hint)
            /\ current_song' = RTNext(current_song).w ]_vars

C14_Witness ==
    /\ op = "update"
    /\ arg = "rotated"
    /\ queries = <<>>
    /\ play = "music_play"
    /\ player_status = Ok(Str("Playing"))
    /\ ret.v = "500ms"

-----------------------------------------------------------------------------
(* C15 *)

\* C15: with marquee enabled, an on_wake that re-queries during the hold
\* phase and hands set_text the text already shown leaves the rotation
\* state as it is, so a hold phase always ends: the marquee starts
\* advancing, unless the text was replaced first.
C15_HoldPhaseEnds ==
    /\ [][ ( /\ op' = "update"
             /\ arg' = "queried"
             /\ current_song.phase = "hold"
             /\ current_song'.content = current_song.content )
           => current_song' = current_song ]_vars
    /\ (marquee /\ current_song.phase = "hold")
           ~> (current_song.phase = "advance"
               \/ ~Overflows(current_song.width, current_song.content))

\* a re-query in the middle of the hold phase
C15_Witness ==
    /\ marquee
    /\ op = "update"
    /\ arg = "queried"
    /\ current_song.phase = "hold"
    /\ current_song.wait < HoldTicks
    /\ current_song.wait > 0

-----------------------------------------------------------------------------
(* C16 *)

\* what the bar shows: the text, the window's position, availability and
\* the play button's icon
display == <<current_song.content, current_song.offset, player_avail, play>>

\* C16: however listener steps, on_wake and on_click interleave, only
\* on_wake changes what a constructed widget displays: a step of the
\* listener changes nothing but the host channel (and the thread's own
\* position), and on_click, whether it returns Ok or an error, leaves text,
\* availability, rotation state, button set and icons as they were.
C16_OnlyOnWakeChangesDisplay ==
    [][ /\ (pc = "ready" /\ display' # display) => op' = "update"
        /\ op' \in {"signal", "connect"} =>
               UNCHANGED <<pc, cfgvars, widget, bus, id, lid, timer>>
        /\ op' = "click" => UNCHANGED <<pc, cfgvars, widget>> ]_vars

\* a click that failed on a widget that shows a text, with a wake posted
C16_Witness ==
    /\ op = "click"
    /\ ~ret.ok
    /\ player_avail
    /\ play = "music_play"
    /\ chan # <<>>

-----------------------------------------------------------------------------
(* C17 *)

\* C17: when the construction returned an error, no listener thread is
\* left running for the id it drew and the host channel never holds a wake
\* that carries that id.
C17_NoWakeWithoutWidget ==
    pc = "failed" =>
        /\ listener \notin {"spawned", "listening"}
        /\ \A i \in 1..Len(chan) : chan[i] # lid

-----------------------------------------------------------------------------
(* C18 *)

\* C18: every wake the listener posts is eventually followed by an on_wake
\* that performs the Metadata query, also while the marquee is advancing.
C18_PostedWakeIsFollowedByQuery ==
    (op = "signal" /\ chan # <<>>) ~> Queried

-----------------------------------------------------------------------------
(* C19 *)

\* how many of the queries of the last on_wake read property p
Reads(p) == Cardinality({i \in 1..Len(queries) : queries[i] = p})

\* C19: an on_wake reads Metadata at most once and PlaybackStatus at most
\* once; it reads PlaybackStatus exactly when it was not short-circuited
\* and a play button is configured, whether or not the Metadata read
\* succeeded, and then sets the icon from the status alone: pause for
\* "Playing", play for another string or a failed read.
C19_StatusReadIndependentOfMetadata ==
    op = "update" =>
        /\ Reads("Metadata") <= 1
        /\ Reads("PlaybackStatus") <= 1
        /\ Reads("Metadata") = 1 <=> Queried
        /\ Reads("PlaybackStatus") = 1 <=> (Queried /\ Configured("play") # <<>>)
        /\ ( /\ Reads("PlaybackStatus") = 1
             /\ player_status.ok => as_str(player_status.v).ok )
           => play = IF player_status = Ok(Str("Playing"))
                     THEN "music_pause" ELSE "music_play"

\* the icon follows the status while the player's metadata cannot be read
C19_Witness ==
    /\ op = "update"
    /\ ~player_avail
    /\ ~player_meta.ok
    /\ queries = <<"Metadata", "PlaybackStatus">>
    /\ play = "music_pause"

====
